---- MODULE Spec2Model ----
(***************************************************************************)
(* Hulu Data Explorer (src/hulu_data_explorer.py): load_data, the filter,  *)
(* selection, detail and similar-title steps of main, get_country_name,    *)
(* interpret_sentiment and get_sentiment.                                  *)
(*                                                                         *)
(* Representation.  A cell of the table is a sequence.  The empty sequence *)
(* is pandas' NaN (read_csv reads an empty field as NaN).  A text cell is  *)
(* a non-empty sequence of characters.  A numeric cell is an exact         *)
(* rational <<n, d>> with d > 0 (floating-point rounding is not modelled). *)
(* A DataFrame is [columns, rows]; a filtered frame keeps the index labels *)
(* of its rows, so it is the sequence of those labels.                     *)
(***************************************************************************)
EXTENDS Integers, Sequences, FiniteSets, TLC

VARIABLES
    source,            \* the file data.csv: readable, header columns, raw rows
    pc,                \* position of main
    data,              \* main's data (the frame load_data returned)
    loadError,         \* st.error was called by load_data
    criteria,          \* genre_filter, release_year_range, min_rating
    filtered_data,     \* index labels of the rows of filtered_data
    title_selection,   \* the selectbox value (NaN when there is no option)
    selected_content,  \* index label of the selected row (0: none)
    country_names,     \* get_country_name's result in the detail card
    similar_titles,    \* index labels of similar_titles
    suggestions,       \* index labels of the rows listed under "You Might Also Like"
    code,              \* argument of get_country_name
    resolved,          \* [done, value]: get_country_name's return value
    genres,            \* genre text handed to get_sentiment
    analyzer,          \* behaviour of the external classifier on this call
    tone               \* [done, passed, result, error, displayed]

vars == <<source, pc, data, loadError, criteria, filtered_data, title_selection,
          selected_content, country_names, similar_titles, suggestions,
          code, resolved, genres, analyzer, tone>>

mainVars == <<source, pc, data, loadError, criteria, filtered_data, title_selection,
              selected_content, country_names, similar_titles, suggestions>>
countryVars == <<code, resolved>>
toneVars == <<genres, analyzer, tone>>

\* ------------------------------------------------------------------ bounds
MaxRows == 3
MaxSimilarRows == 5
MaxLoadRows == 3
MaxPicked == 2
MaxCodeLen == 4
MaxGenreLen == 515

\* ------------------------------------------------------------------ cells
NaN == <<>>

IsNaN(v) == Len(v) = 0

Str(s) == <<s>>

Num(n, d) == <<n, d>>

Leq(a, b) == a[1] * b[2] <= b[1] * a[2]

Geq(a, b) == ~IsNaN(a) /\ ~IsNaN(b) /\ a[1] * b[2] >= b[1] * a[2]

Add(a, b) == <<a[1] * b[2] + b[1] * a[2], a[2] * b[2]>>

Sub(a, b) == IF IsNaN(a) \/ IsNaN(b) THEN NaN
             ELSE <<a[1] * b[2] - b[1] * a[2], a[2] * b[2]>>

Column(rows, f) == [i \in 1..Len(rows) |-> rows[i][f]]

DropNa(col) == SelectSeq(col, LAMBDA v : ~IsNaN(v))

\* ------------------------------------------------------------------ load_data
Columns == {"title", "genres", "releaseYear", "imdbAverageRating",
            "imdbNumVotes", "availableCountries", "imdbId", "type"}

\* the columns load_data indexes (lines 12-16)
NormalizedColumns == {"title", "genres", "releaseYear", "imdbAverageRating",
                      "availableCountries"}

UnknownTitle == Str("Unknown Title")
UnknownGenre == Str("Unknown Genre")
UnknownCountry == Str("Unknown Country")

EmptyFrame == [columns |-> {}, rows |-> <<>>]

\* DataFrame.empty: some axis has length 0
IsEmpty(frame) == frame.columns = {} \/ Len(frame.rows) = 0

\* Series.fillna(value); fillna(NaN) fills nothing
FillNa(col, value) == [i \in 1..Len(col) |-> IF IsNaN(col[i]) THEN value ELSE col[i]]

RECURSIVE SortNums(_)
SortNums(col) ==
    IF Len(col) = 0 THEN <<>>
    ELSE LET k == CHOOSE i \in 1..Len(col) : \A j \in 1..Len(col) : Leq(col[i], col[j])
             rest == [i \in 1..(Len(col) - 1) |-> IF i < k THEN col[i] ELSE col[i + 1]]
         IN  <<col[k]>> \o SortNums(rest)

\* Series.median(): NaN skipped; NaN when nothing is left
Median(col) ==
    LET s == SortNums(DropNa(col))
        n == Len(s)
    IN  IF n = 0 THEN NaN
        ELSE IF n % 2 = 1 THEN s[(n + 1) \div 2]
        ELSE LET t == Add(s[n \div 2], s[n \div 2 + 1]) IN <<t[1], 2 * t[2]>>

RECURSIVE SumNums(_)
SumNums(col) == IF Len(col) = 0 THEN <<0, 1>> ELSE Add(Head(col), SumNums(Tail(col)))

\* Series.mean(): NaN skipped; NaN when nothing is left
Mean(col) ==
    LET p == DropNa(col)
        t == SumNums(p)
    IN  IF Len(p) = 0 THEN NaN ELSE <<t[1], t[2] * Len(p)>>

\* a cast that rounds up by cutting off and adding one (moves whole numbers too)
AsIntCeilSlip(v) == <<(v[1] \div v[2]) + 1, 1>>

\* astype(int) on one finite value: the fraction is cut off towards zero
AsInt(v) == IF v[1] >= 0 THEN <<v[1] \div v[2], 1>> ELSE <<-((-v[1]) \div v[2]), 1>>

\* lines 12-17 on a frame that was read; ok = FALSE when a statement raises
NormalizeFrame(frame) ==
    IF ~(NormalizedColumns \subseteq frame.columns)
    THEN [ok |-> FALSE, frame |-> EmptyFrame]                       \* KeyError
    ELSE LET rows == frame.rows
             title == FillNa(Column(rows, "title"), UnknownTitle)
             genre == FillNa(Column(rows, "genres"), UnknownGenre)
             year == FillNa(Column(rows, "releaseYear"), Median(Column(rows, "releaseYear")))
             rating == FillNa(Column(rows, "imdbAverageRating"),
                              Mean(Column(rows, "imdbAverageRating")))
             country == FillNa(Column(rows, "availableCountries"), UnknownCountry)
         IN  IF \E i \in 1..Len(rows) : IsNaN(year[i])
             THEN [ok |-> FALSE, frame |-> EmptyFrame]              \* astype(int) of NaN
             ELSE [ok |-> TRUE,
                   frame |-> [columns |-> frame.columns,
                              rows |-> [i \in 1..Len(rows) |->
                                  [rows[i] EXCEPT !.title = title[i],
                                                  !.genres = genre[i],
                                                  !.releaseYear = AsInt(year[i]),
                                                  !.imdbAverageRating = rating[i],
                                                  !.availableCountries = country[i]]]]]

\* load_data: [frame, error]; every exception is caught (lines 18-20)
load_data(src) ==
    IF ~src.readable
    THEN [frame |-> EmptyFrame, error |-> TRUE]                     \* read_csv raises
    ELSE LET r == NormalizeFrame([columns |-> src.columns, rows |-> src.rows])
         IN  [frame |-> r.frame, error |-> ~r.ok]

\* ------------------------------------------------------------------ text
Whitespace == {" "}

\* needle in hay (Python's substring test; the empty needle is in every text)
Contains(needle, hay) ==
    \E k \in 0..(Len(hay) - Len(needle)) : SubSeq(hay, k + 1, k + Len(needle)) = needle

\* str.split(sep) for a one-character sep: always at least one token
RECURSIVE Split(_, _)
Split(s, sep) ==
    IF \A i \in 1..Len(s) : s[i] # sep THEN <<s>>
    ELSE LET k == CHOOSE i \in 1..Len(s) : s[i] = sep /\ \A j \in 1..(i - 1) : s[j] # sep
         IN  <<SubSeq(s, 1, k - 1)>> \o Split(SubSeq(s, k + 1, Len(s)), sep)

\* str.strip()
Strip(s) ==
    LET keep == {i \in 1..Len(s) : s[i] \notin Whitespace}
    IN  IF keep = {} THEN <<>>
        ELSE SubSeq(s, CHOOSE i \in keep : \A j \in keep : i <= j,
                       CHOOSE i \in keep : \A j \in keep : i >= j)

\* sep.join(tokens)
RECURSIVE Join(_, _)
Join(tokens, sep) ==
    IF Len(tokens) = 0 THEN <<>>
    ELSE IF Len(tokens) = 1 THEN tokens[1]
    ELSE tokens[1] \o sep \o Join(Tail(tokens), sep)

\* ------------------------------------------------------------------ get_country_name
country_dict ==
    (<<"J", "P">> :> <<"J", "a", "p", "a", "n">>) @@
    (<<"U", "S">> :> <<"U", "n", "i", "t", "e", "d", " ", "S", "t", "a", "t", "e", "s">>) @@
    (<<"C", "A">> :> <<"C", "a", "n", "a", "d", "a">>)

\* dict.get(key, default)
DictGet(dict, key, default) == IF key \in DOMAIN dict THEN dict[key] ELSE default

get_country_name(c) ==
    LET tokens == Split(c, ",")
    IN  Join([i \in 1..Len(tokens) |-> DictGet(country_dict, Strip(tokens[i]), tokens[i])],
             <<",", " ">>)

\* ------------------------------------------------------------------ tone
None == "None"

Positive == "The genre tone suggests a generally enjoyable or light-hearted experience."
Negative == "The genre tone suggests a more intense, dramatic, or serious theme."
Neutral == "The genre tone is neutral or mixed."

\* the label is compared without regard to case
interpret_sentimentCaseSlip(sentiment) ==
    IF sentiment \in {"POSITIVE", "positive"} THEN Positive
    ELSE IF sentiment \in {"NEGATIVE", "negative"} THEN Negative
    ELSE Neutral

\* lines 38-44
interpret_sentiment(sentiment) ==
    IF sentiment = "POSITIVE" THEN Positive
    ELSE IF sentiment = "NEGATIVE" THEN Negative
    ELSE Neutral

SentimentMaxChars == 512

\* s[:n]
Prefix(s, n) == SubSeq(s, 1, IF Len(s) < n THEN Len(s) ELSE n)

\* What one call of the classifier does: it raises, or it returns a list that
\* is empty, a list whose first entry has no 'label', or a list whose first
\* entry carries a label.
AnalyzerOutcomes == {"raises", "empty list", "no label", "labelled"}

\* a failed call falls back to the neutral description and the whole text is passed
get_sentimentNeutralSlip(g, a) ==
    IF a.outcome = "labelled"
    THEN [passed |-> g, result |-> interpret_sentiment(a.label), error |-> FALSE]
    ELSE [passed |-> g, result |-> Neutral, error |-> TRUE]

\* get_sentiment: [passed, result, error]; the slice is taken before the call,
\* result[0]['label'] raises on an empty list or a missing key, and every
\* exception is caught (lines 48-54)
get_sentiment(g, a) ==
    LET passed == Prefix(g, SentimentMaxChars)
    IN  IF a.outcome = "labelled"
        THEN [passed |-> passed, result |-> interpret_sentiment(a.label), error |-> FALSE]
        ELSE [passed |-> passed, result |-> None, error |-> TRUE]

\* truth value of an Optional[str]
Truthy(x) == x # None /\ x # ""

\* ------------------------------------------------------------------ main: filters
\* data['genres'].str.split(',').explode().unique()
GenreOptions(frame) ==
    UNION {{Split(frame.rows[i].genres, ",")[k] :
                k \in 1..Len(Split(frame.rows[i].genres, ","))} : i \in 1..Len(frame.rows)}

\* int(data['releaseYear'].min()), int(data['releaseYear'].max())
MinYear(frame) ==
    LET y == Column(frame.rows, "releaseYear")
    IN  AsInt(y[CHOOSE i \in 1..Len(y) : \A j \in 1..Len(y) : Leq(y[i], y[j])])[1]

MaxYear(frame) ==
    LET y == Column(frame.rows, "releaseYear")
    IN  AsInt(y[CHOOSE i \in 1..Len(y) : \A j \in 1..Len(y) : Leq(y[j], y[i])])[1]

\* positions of the min_rating slider that the model tries (0.0 to 10.0)
MinRatings == {Num(0, 1), Num(7, 1), Num(10, 1)}

\* a genre matches only as a whole comma-separated token
GenreTokenSlip(x, genre_filter) ==
    IF genre_filter # {} THEN \E g \in genre_filter : \E k \in 1..Len(Split(x, ",")) :
                                  Split(x, ",")[k] = g
    ELSE TRUE

\* any(genre in x for genre in genre_filter) if genre_filter else True
GenreMatches(x, genre_filter) ==
    IF genre_filter # {} THEN \E g \in genre_filter : Contains(g, x) ELSE TRUE

\* Series.between(left, right): inclusive on both ends
Between(v, left, right) == Leq(Num(left, 1), v) /\ Leq(v, Num(right, 1))

\* the boolean mask of lines 120-122, row by row
FilterMask(frame, c) ==
    [i \in 1..Len(frame.rows) |->
        /\ GenreMatches(frame.rows[i].genres, c.genre_filter)
        /\ Between(frame.rows[i].releaseYear, c.release_year_range[1], c.release_year_range[2])
        /\ Geq(frame.rows[i].imdbAverageRating, c.min_rating)]

\* frame[mask]: the rows whose mask is True, in frame order, with their labels
Masked(mask) == SelectSeq([i \in 1..Len(mask) |-> i], LAMBDA i : mask[i])

\* filtered_data['title'].unique(): the options of the selectbox
TitleOptions(frame, labels) == {frame.rows[labels[k]].title : k \in 1..Len(labels)}

NoCriteria == [genre_filter |-> {}, release_year_range |-> <<0, 0>>, min_rating |-> NaN]

\* lines 110-125: the sidebar widgets, the filter and the selectbox
ApplyFilters ==
    /\ pc = "loaded"
    /\ \E picked \in SUBSET GenreOptions(data), lo \in MinYear(data)..MaxYear(data),
          hi \in MinYear(data)..MaxYear(data), mr \in MinRatings :
        /\ Cardinality(picked) <= MaxPicked
        /\ lo <= hi
        /\ criteria' = [genre_filter |-> picked, release_year_range |-> <<lo, hi>>,
                        min_rating |-> mr]
        /\ filtered_data' = Masked(FilterMask(data, criteria'))
        /\ IF Len(filtered_data') = 0
           THEN title_selection' = NaN                     \* selectbox without options: None
           ELSE title_selection' \in TitleOptions(data, filtered_data')
    /\ pc' = "filtered"
    /\ UNCHANGED <<source, data, loadError, selected_content, country_names,
                   similar_titles, suggestions, countryVars, toneVars>>

\* ------------------------------------------------------------------ main: details
\* columns the detail card reads from selected_content (lines 131-144)
DetailColumns == {"availableCountries", "imdbId", "title", "type", "genres",
                  "releaseYear", "imdbAverageRating", "imdbNumVotes"}

\* filtered_data[filtered_data['title'] == title_selection]
TitleRows(frame, labels, t) == SelectSeq(labels, LAMBDA i : frame.rows[i].title = t)

\* lines 127-154: .iloc[0] raises IndexError on no row, a missing column raises
\* KeyError, round() of NaN raises ValueError; main catches none of them
RetrieveSelected ==
    /\ pc = "filtered"
    /\ LET rows == TitleRows(data, filtered_data, title_selection)
       IN  IF Len(rows) = 0 \/ ~(DetailColumns \subseteq data.columns)
              \/ IsNaN(data.rows[rows[1]].imdbAverageRating)
           THEN /\ pc' = "crashed"
                /\ UNCHANGED <<selected_content, country_names>>
           ELSE /\ selected_content' = rows[1]
                /\ country_names' = get_country_name(data.rows[rows[1]].availableCountries)
                /\ pc' = "details"
    /\ UNCHANGED <<source, data, loadError, criteria, filtered_data, title_selection,
                   similar_titles, suggestions, countryVars, toneVars>>

\* ------------------------------------------------------------------ main: similar titles
SimilarLimit == 3

RatingTolerance == Num(1, 2)

\* the anchor is left out by index label instead of by title
SimilarByLabelSlip(frame, anchor) ==
    Masked([i \in 1..Len(frame.rows) |->
        /\ frame.rows[i].genres = frame.rows[anchor].genres
        /\ Geq(frame.rows[i].imdbAverageRating,
               Sub(frame.rows[anchor].imdbAverageRating, RatingTolerance))
        /\ i # anchor])

\* lines 166-168
Similar(frame, anchor) ==
    Masked([i \in 1..Len(frame.rows) |->
        /\ frame.rows[i].genres = frame.rows[anchor].genres
        /\ Geq(frame.rows[i].imdbAverageRating,
               Sub(frame.rows[anchor].imdbAverageRating, RatingTolerance))
        /\ frame.rows[i].title # frame.rows[anchor].title])

\* DataFrame.head(n)
Head_(labels, n) == SubSeq(labels, 1, IF Len(labels) < n THEN Len(labels) ELSE n)

\* lines 165-178: the suggestions listed, then the rating plot
SimilarTitles ==
    /\ pc = "details"
    /\ similar_titles' = Similar(data, selected_content)
    /\ suggestions' = IF Len(similar_titles') # 0 THEN Head_(similar_titles', SimilarLimit)
                      ELSE <<>>
    /\ pc' = "done"
    /\ UNCHANGED <<source, data, loadError, criteria, filtered_data, title_selection,
                   selected_content, country_names, countryVars, toneVars>>

\* lines 104-108
LoadData ==
    /\ pc = "start"
    /\ data' = load_data(source).frame
    /\ loadError' = load_data(source).error
    /\ pc' = IF IsEmpty(data') THEN "returned" ELSE "loaded"
    /\ UNCHANGED <<source, criteria, filtered_data, title_selection, selected_content,
                   country_names, similar_titles, suggestions, countryVars, toneVars>>

\* ------------------------------------------------------------------ the other entry points
\* one call of get_country_name
ResolveCountry ==
    /\ ~resolved.done
    /\ resolved' = [done |-> TRUE, value |-> get_country_name(code)]
    /\ UNCHANGED <<mainVars, code, toneVars>>

\* lines 159-163: the button was pressed
AnalyzeGenreTone ==
    /\ ~tone.done
    /\ LET r == get_sentiment(genres, analyzer)
       IN  tone' = [done |-> TRUE, passed |-> r.passed, result |-> r.result,
                    error |-> r.error,
                    displayed |-> IF Truthy(r.result) THEN r.result ELSE None]
    /\ UNCHANGED <<mainVars, countryVars, genres, analyzer>>

\* ------------------------------------------------------------------ inputs
SeqsUpTo(S, n) == UNION {[1..k -> S] : k \in 0..n}

Row(t, g, y, r, c) ==
    [title |-> t, genres |-> g, releaseYear |-> y, imdbAverageRating |-> r,
     imdbNumVotes |-> Num(100, 1), availableCountries |-> c,
     imdbId |-> Str("tt0000001"), type |-> Str("movie")]

\* a raw row of a file whose header lacks some columns
Project(row, cols) == [f \in Columns |-> IF f \in cols THEN row[f] ELSE NaN]

Drama == <<"D">>
Melodrama == <<"M", "D">>
Comedy == <<"C">>
DramaComedy == <<"D", ",", "C">>
US == <<"U", "S">>

MainRows ==
    { Row(Str("A"), Drama, Num(2010, 1), Num(7, 1), US),
      Row(Str("B"), Drama, Num(2011, 1), Num(68, 10), US),
      Row(Str("B"), DramaComedy, Num(2011, 1), Num(8, 1), <<"U", "S", ",", " ", "X">>),
      Row(Str("A"), Melodrama, Num(2010, 1), Num(68, 10), US),
      Row(Str("C"), Drama, Num(2011, 1), NaN, US),
      Row(NaN, NaN, NaN, NaN, NaN) }

SimilarRows ==
    { Row(Str("A"), Drama, Num(2010, 1), Num(7, 1), US),
      Row(Str("B"), Drama, Num(2010, 1), Num(65, 10), US),
      Row(Str("B"), Drama, Num(2010, 1), Num(6, 1), US),
      Row(Str("C"), Comedy, Num(2010, 1), Num(7, 1), US) }

LoadRows ==
    { Row(Str("A"), Drama, Num(2010, 1), Num(7, 1), US),
      Row(Str("B"), Comedy, Num(2011, 1), Num(68, 10), US),
      Row(NaN, Drama, Num(2010, 1), Num(7, 1), US),
      Row(Str("A"), NaN, Num(2010, 1), Num(7, 1), US),
      Row(Str("A"), Drama, NaN, Num(7, 1), US),
      Row(Str("A"), Drama, Num(2010, 1), NaN, US),
      Row(Str("A"), Drama, Num(2010, 1), Num(7, 1), NaN),
      Row(NaN, NaN, NaN, NaN, NaN) }

Headers == {Columns} \cup {Columns \ {c} : c \in Columns}

CodeChars == {"U", "S", "J", "P", "x", " ", ","}

Scenario == <<" ", "U", "S", ",", " ", "j", "p", " ">>

Labels == {"POSITIVE", "NEGATIVE", "NEUTRAL", "", "positive", "negative"}

Analyzers ==
    [outcome : AnalyzerOutcomes \ {"labelled"}, label : {""}]
        \cup [outcome : {"labelled"}, label : Labels]

GenreText(n) == [i \in 1..n |-> <<"a", "b", "c">>[(i % 3) + 1]]

GenreLens == {0, 1} \cup ((SentimentMaxChars - 2)..MaxGenreLen)

MainIdle ==
    /\ pc = "start"
    /\ data = EmptyFrame
    /\ loadError = FALSE
    /\ criteria = NoCriteria
    /\ filtered_data = <<>>
    /\ title_selection = NaN
    /\ selected_content = 0
    /\ country_names = <<>>
    /\ similar_titles = <<>>
    /\ suggestions = <<>>

NoSource == source = [readable |-> FALSE, columns |-> {}, rows |-> <<>>]

CountryIdle == code = <<>> /\ resolved = [done |-> FALSE, value |-> <<>>]

ToneIdle ==
    /\ genres = <<>>
    /\ analyzer = [outcome |-> "raises", label |-> ""]
    /\ tone = [done |-> FALSE, passed |-> <<>>, result |-> None, error |-> FALSE,
               displayed |-> None]

\* ------------------------------------------------------------------ specifications
\* main over a readable file with every column
Init ==
    /\ source \in [readable : {TRUE}, columns : {Columns}, rows : SeqsUpTo(MainRows, MaxRows)]
    /\ MainIdle /\ CountryIdle /\ ToneIdle

Next == LoadData \/ ApplyFilters \/ RetrieveSelected \/ SimilarTitles

Spec == Init /\ [][Next]_vars

\* main over catalogs long enough for the suggestion limit to cut
InitSimilar ==
    /\ source \in [readable : {TRUE}, columns : {Columns},
                   rows : SeqsUpTo(SimilarRows, MaxSimilarRows)]
    /\ MainIdle /\ CountryIdle /\ ToneIdle

SpecSimilar == InitSimilar /\ [][Next]_vars

\* load_data over unreadable files, incomplete headers and missing values
InitLoad ==
    /\ \/ NoSource
       \/ \E h \in Headers, rows \in SeqsUpTo(LoadRows, MaxLoadRows) :
            source = [readable |-> TRUE, columns |-> h,
                      rows |-> [i \in 1..Len(rows) |-> Project(rows[i], h)]]
    /\ MainIdle /\ CountryIdle /\ ToneIdle

NextLoad == LoadData

SpecLoad == InitLoad /\ [][NextLoad]_vars

\* get_country_name over short codes and the documented scenario
InitCountry ==
    /\ code \in SeqsUpTo(CodeChars, MaxCodeLen) \cup {Scenario}
    /\ resolved = [done |-> FALSE, value |-> <<>>]
    /\ NoSource /\ MainIdle /\ ToneIdle

NextCountry == ResolveCountry

SpecCountry == InitCountry /\ [][NextCountry]_vars

\* get_sentiment over genre texts around the length limit and every classifier outcome
InitTone ==
    /\ genres \in {GenreText(n) : n \in GenreLens}
    /\ analyzer \in Analyzers
    /\ tone = [done |-> FALSE, passed |-> <<>>, result |-> None, error |-> FALSE,
               displayed |-> None]
    /\ NoSource /\ MainIdle /\ CountryIdle

NextTone == AnalyzeGenreTone

SpecTone == InitTone /\ [][NextTone]_vars

\* ------------------------------------------------------------------ claims
AfterFilter == pc \in {"filtered", "details", "done", "crashed"}

\* C1: the filter result is exactly the rows of the catalog, in catalog order,
\* for which the genre set is empty or some requested genre occurs as a
\* substring of the row's genre text, the release year lies in the inclusive
\* year range, and the rating is at least the minimum rating; it is a
\* subsequence of the catalog, and the catalog is what load_data returned.
C1_FilterContract ==
    AfterFilter =>
        LET n == Len(data.rows)
            m == Len(filtered_data)
            c == criteria
            Occurs(g, x) == \E a \in 0..Len(x) : \E b \in a..Len(x) : SubSeq(x, a + 1, b) = g
            Passes(i) ==
                LET r == data.rows[i]
                IN  /\ c.genre_filter = {} \/ \E g \in c.genre_filter : Occurs(g, r.genres)
                    /\ c.release_year_range[1] * r.releaseYear[2] <= r.releaseYear[1]
                    /\ r.releaseYear[1] <= c.release_year_range[2] * r.releaseYear[2]
                    /\ Len(r.imdbAverageRating) = 2
                    /\ r.imdbAverageRating[1] * c.min_rating[2]
                           >= c.min_rating[1] * r.imdbAverageRating[2]
        IN  /\ \A k \in 1..m : filtered_data[k] \in 1..n
            /\ \A k \in 1..(m - 1) : filtered_data[k] < filtered_data[k + 1]
            /\ {filtered_data[k] : k \in 1..m} = {i \in 1..n : Passes(i)}
            /\ data = load_data(source).frame

\* a filter that keeps some rows and drops others, one kept row matching the
\* requested genre only as a substring of another genre
C1_Witness ==
    /\ pc = "filtered"
    /\ criteria.genre_filter = {Drama}
    /\ Len(filtered_data) > 1
    /\ Len(filtered_data) < Len(data.rows)
    /\ \E k \in 1..Len(filtered_data) : data.rows[filtered_data[k]].genres = Melodrama

\* C2: with no genre selected, the year range from the catalog's minimum to its
\* maximum release year and minimum rating 0.0, the filter returns every row of
\* the catalog in order.
C2_FullRangeReturnsAll ==
    (/\ AfterFilter
     /\ criteria.genre_filter = {}
     /\ criteria.release_year_range = <<MinYear(data), MaxYear(data)>>
     /\ criteria.min_rating = Num(0, 1))
        => filtered_data = [i \in 1..Len(data.rows) |-> i]

\* C3: the suggestions never contain the anchor, are at most 3, are in catalog
\* order, and are the first 3 rows of the catalog with the anchor's exact genre
\* text, a rating of at least the anchor's rating minus 0.5 and a title other
\* than the anchor's; none qualifying gives the empty sequence.
C3_SimilarContract ==
    pc = "done" =>
        LET n == Len(data.rows)
            m == Len(suggestions)
            anchor == data.rows[selected_content]
            Qualifies(i) ==
                LET r == data.rows[i]
                IN  /\ r.genres = anchor.genres
                    /\ Len(r.imdbAverageRating) = 2
                    /\ Len(anchor.imdbAverageRating) = 2
                    /\ 2 * r.imdbAverageRating[1] * anchor.imdbAverageRating[2]
                          >= (2 * anchor.imdbAverageRating[1] - anchor.imdbAverageRating[2])
                                 * r.imdbAverageRating[2]
                    /\ r.title # anchor.title
            qualifying == {i \in 1..n : Qualifies(i)}
            listed == {suggestions[k] : k \in 1..m}
        IN  /\ selected_content \notin listed
            /\ m <= 3
            /\ \A k \in 1..(m - 1) : suggestions[k] < suggestions[k + 1]
            /\ listed \subseteq qualifying
            /\ m = IF Cardinality(qualifying) < 3 THEN Cardinality(qualifying) ELSE 3
            /\ \A i \in qualifying \ listed : \A j \in listed : j < i

\* more than three rows qualify, the anchor lies among the first of them and
\* is skipped, and three are listed
C3_Witness ==
    /\ pc = "done"
    /\ Len(similar_titles) > 3
    /\ Len(suggestions) = 3
    /\ suggestions[1] < selected_content
    /\ selected_content < suggestions[3]

\* C4: when the header has every required column, every row load_data returns
\* has title, genres, releaseYear, imdbAverageRating and availableCountries
\* populated, and releaseYear is an integer.
C4_FieldsPopulated ==
    (pc # "start" /\ source.readable /\ source.columns = Columns) =>
        \A i \in 1..Len(data.rows) :
            /\ ~IsNaN(data.rows[i].title)
            /\ ~IsNaN(data.rows[i].genres)
            /\ ~IsNaN(data.rows[i].releaseYear)
            /\ data.rows[i].releaseYear[2] = 1
            /\ ~IsNaN(data.rows[i].imdbAverageRating)
            /\ ~IsNaN(data.rows[i].availableCountries)

\* C5: load_data returns the empty catalog and reports an error when the file
\* is unreadable or lacks a required column; with a readable file and every
\* required column it reports no error and returns one row per raw row.
C5_LoadContract ==
    pc # "start" =>
        IF ~source.readable \/ source.columns # Columns
        THEN IsEmpty(data) /\ loadError
        ELSE /\ ~loadError
             /\ data.columns = Columns
             /\ Len(data.rows) = Len(source.rows)
             /\ \A i \in 1..Len(data.rows) : data.rows[i].imdbId = source.rows[i].imdbId

\* C6: get_country_name returns the ", "-join, in input order, of one token per
\* comma-separated input token, each trimmed and then replaced by its display
\* name when the table has it and passed through trimmed otherwise; " US, jp "
\* gives "United States, Japan".
C6_ResolverContract ==
    resolved.done =>
        LET tokens == Split(code, ",")
            out == [i \in 1..Len(tokens) |->
                       IF Strip(tokens[i]) \in DOMAIN country_dict
                       THEN country_dict[Strip(tokens[i])]
                       ELSE Strip(tokens[i])]
        IN  /\ resolved.value = Join(out, <<",", " ">>)
            /\ code = Scenario =>
                   resolved.value = country_dict[<<"U", "S">>] \o <<",", " ">>
                                        \o country_dict[<<"J", "P">>]

\* C7: get_sentiment hands the classifier at most the first 512 characters of
\* the genre text; when the call raises or its output is malformed, an error is
\* reported, the result is None and no tone is displayed; when it succeeds the
\* result is interpret_sentiment of the returned label.
C7_SentimentContract ==
    tone.done =>
        /\ Len(tone.passed) = (IF Len(genres) < 512 THEN Len(genres) ELSE 512)
        /\ \A i \in 1..Len(tone.passed) : tone.passed[i] = genres[i]
        /\ analyzer.outcome # "labelled" =>
               tone.error /\ tone.result = None /\ tone.displayed = None
        /\ analyzer.outcome = "labelled" =>
               ~tone.error /\ tone.result = interpret_sentiment(analyzer.label)

\* a genre text longer than the limit and a classifier call that failed
C7_Witness ==
    /\ tone.done
    /\ Len(genres) > 512
    /\ Len(tone.passed) = 512
    /\ analyzer.outcome \in {"raises", "empty list", "no label"}
    /\ tone.error

\* C8: "POSITIVE" maps to the enjoyable/light-hearted description, "NEGATIVE"
\* to the intense/dramatic/serious one, every other label to the neutral one,
\* and the three descriptions are pairwise distinct.
C8_InterpretMapping ==
    (tone.done /\ analyzer.outcome = "labelled") =>
        /\ analyzer.label = "POSITIVE" => tone.result = Positive
        /\ analyzer.label = "NEGATIVE" => tone.result = Negative
        /\ analyzer.label \notin {"POSITIVE", "NEGATIVE"} => tone.result = Neutral
        /\ Positive # Negative /\ Positive # Neutral /\ Negative # Neutral

\* a lower-case label was interpreted as neutral
C8_Witness ==
    /\ tone.done
    /\ analyzer.outcome = "labelled"
    /\ analyzer.label = "positive"
    /\ tone.result = Neutral

\* C9: normalizing the catalog load_data returned gives that catalog again.
C9_NormalizeIdempotent ==
    pc # "start" => NormalizeFrame(data).frame = data

\* a load that filled a missing title, a missing year with the cut-off median
\* 2010.5 and a missing rating
C9_Witness ==
    /\ pc = "loaded"
    /\ ~loadError
    /\ Median(Column(source.rows, "releaseYear")) = <<4021, 2>>
    /\ \E i \in 1..Len(data.rows) :
        /\ IsNaN(source.rows[i].title) /\ data.rows[i].title = UnknownTitle
        /\ IsNaN(source.rows[i].releaseYear) /\ data.rows[i].releaseYear = Num(2010, 1)
        /\ IsNaN(source.rows[i].imdbAverageRating)
        /\ ~IsNaN(data.rows[i].imdbAverageRating)

\* C10: after a successful load of a non-empty catalog no pass of main ends in
\* an unhandled fault, whatever the criteria; criteria that match nothing give
\* an empty filter result and no selection.
C10_PassCompletes ==
    /\ pc # "crashed"
    /\ (AfterFilter /\ Len(filtered_data) = 0) => IsNaN(title_selection)

====
